---- MODULE Spec2Model ----
(***************************************************************************)
(* State-machine model of server.py: the chat endpoint with its in-memory  *)
(* conversation store and backend call, the upload endpoint and the root   *)
(* endpoint.  Python lists are objects with identity: `heap` maps a list   *)
(* object to its entries and `conversations` maps a user to a list object. *)
(* A request that awaits (backend call, file read) is an in-flight task.   *)
(***************************************************************************)
EXTENDS Integers, Sequences, FiniteSets, TLC

\* ---------------------------------------------------------------- bounds
\* total number of requests the service receives in one behaviour
MaxReq == 3

\* ---------------------------------------------------------------- inputs
\* the client connections; each carries one request at a time, so at most
\* that many requests are suspended at an await at the same time
Connections == {"c1", "c2"}
Users == {"alice", "bob"}
Messages == {"hi", "there"}
\* Unspecified: the request body carries no model_choice field; "model_b" is
\* registered, "model_z" is not
Unspecified == "<unspecified>"
ModelChoices == {Unspecified, "model_b", "model_z"}
Filenames == {"a.txt"}
\* upload bodies, as byte sequences of different lengths
Contents == {<<1, 2>>, <<3>>}

\* What the backend does with one request: an HTTP response (status, whether
\* the body parses as JSON, the parsed JSON object as a set of key/value
\* pairs).
BackendResponses ==
    { [status |-> 200, json |-> TRUE, data |-> {<<"text", "ok">>}],
      [status |-> 200, json |-> TRUE, data |-> {}],
      [status |-> 200, json |-> FALSE, data |-> {}],
      [status |-> 503, json |-> TRUE, data |-> {}] }

\* I/O faults of the upload path
OpenFaults == {"open"}
WriteFaults == {"read", "write"}

\* ---------------------------------------------------------------- program constants
MODEL_ENDPOINTS ==
    [model_a |-> "https://api.modela.com/v1/generate",
     model_b |-> "https://api.modelb.com/v1/generate"]

WELCOME == "Welcome to the Web-based Chat Assistant API"
UPLOADED == "File uploaded successfully."
None == "<None>"

VARIABLES
    conversations,  \* dict: user_id -> list object (DOMAIN = the keys present)
    heap,           \* live list objects: object id -> sequence of entries
    chats,          \* chat requests suspended at the backend call
    uploads,        \* upload requests suspended at file.read()
    files,          \* files under uploads/: filename -> bytes (DOMAIN = existing)
    nreq,           \* number of requests received so far (request ids 1..nreq)
    nposts,         \* number of backend POSTs issued so far
    resp,           \* the response sent last, with the request it answers
    log,            \* per user, the successful chat turns <<message, reply>> in completion order
    failed,         \* per user, whether one of the user's chat turns has failed
    ulog            \* per filename, the bodies of the successful uploads in completion order

vars == <<conversations, heap, chats, uploads, files, nreq, nposts, resp, log, failed, ulog>>

\* ---------------------------------------------------------------- helpers
\* An entry constructor that tags every entry as the assistant's.
EntryAlwaysAssistant(role, content) == [role |-> "assistant", content |-> content]

Entry(role, content) == [role |-> role, content |-> content]

Range(f) == {f[x] : x \in DOMAIN f}

Remove(f, k) == [x \in DOMAIN f \ {k} |-> f[x]]

\* dict assignment d[k] = v
Put(f, k, v) == [x \in DOMAIN f \cup {k} |-> IF x = k THEN v ELSE f[x]]

\* A prompt made of the latest message only.
JoinLatestOnly(parts) == IF parts = <<>> THEN "" ELSE parts[Len(parts)]

\* "\n".join(parts)
RECURSIVE Join(_)
Join(parts) ==
    IF parts = <<>> THEN ""
    ELSE IF Len(parts) = 1 THEN parts[1]
    ELSE parts[1] \o "\n" \o Join(Tail(parts))

\* [entry["content"] for entry in history]
Contents_of(history) == [i \in 1..Len(history) |-> history[i].content]

\* A default of "model_b" instead of "model_a".
ModelChoiceDefaultB(choice) == IF choice = Unspecified THEN "model_b" ELSE choice

\* Message.model_choice: Optional[str] = "model_a"
ModelChoice(choice) == IF choice = Unspecified THEN "model_a" ELSE choice

\* A registry lookup that knows "model_a" only.
LookupOnlyA(model_name) ==
    IF model_name = "model_a" THEN MODEL_ENDPOINTS[model_name] ELSE None

\* MODEL_ENDPOINTS.get(model_name)
Lookup(model_name) ==
    IF model_name \in DOMAIN MODEL_ENDPOINTS THEN MODEL_ENDPOINTS[model_name] ELSE None

\* data.get(key) without the default: None for a missing key.
DictGetNoDefault(data, key, default) ==
    IF \E p \in data : p[1] = key
    THEN (CHOOSE p \in data : p[1] = key)[2]
    ELSE None

\* data.get(key, default)
DictGet(data, key, default) ==
    IF \E p \in data : p[1] = key
    THEN (CHOOSE p \in data : p[1] = key)[2]
    ELSE default

\* The stored history of a user, as a reader of `conversations` sees it.
Stored(user_id) ==
    IF user_id \in DOMAIN conversations THEN heap[conversations[user_id]] ELSE <<>>

\* A fresh list on every turn, whatever is stored.
GetHistoryFresh(user_id, fresh) == fresh

\* One list for everybody: whatever list is stored first is handed to every user.
GetHistoryAnyUser(user_id, fresh) ==
    IF conversations # <<>>
    THEN conversations[CHOOSE u \in DOMAIN conversations : TRUE]
    ELSE fresh

\* conversations.get(user_id, []): the stored list object, or a fresh one (id `fresh`)
GetHistory(user_id, fresh) ==
    IF user_id \in DOMAIN conversations THEN conversations[user_id] ELSE fresh

\* Reference counting: a list object nobody refers to is gone.
Collect(h, conv, tasks) ==
    [o \in DOMAIN h \cap (Range(conv) \cup {tasks[t].history : t \in DOMAIN tasks}) |-> h[o]]

InFlight == Cardinality(DOMAIN chats) + Cardinality(DOMAIN uploads)
Idle == InFlight = 0
\* a connection is free to carry a new request
FreeConnection == InFlight < Cardinality(Connections)

\* placeholder of resp.backend when no backend response was received
NoBackend == [status |-> 0, json |-> FALSE, data |-> {}]

NoResp ==
    [kind |-> "none", status |-> 0, body |-> "", user_id |-> "", message |-> "",
     backend |-> NoBackend, filename |-> "", content |-> <<>>]

\* generate_response without raise_for_status(): the status is ignored.
GenerateResultAnyStatus(response) ==
    IF ~response.json
    THEN [raised |-> TRUE, value |-> "Error generating response: invalid JSON"]
    ELSE [raised |-> FALSE, value |-> DictGet(response.data, "text", "")]

\* generate_response's result after the awaited POST came back with `response`:
\* the returned text, or the RuntimeError the except clauses raise.
GenerateResult(response) ==
    IF response.status \notin 200..299
    THEN [raised |-> TRUE, value |-> "Error communicating with model API: status error"]
    ELSE IF ~response.json
    THEN [raised |-> TRUE, value |-> "Error generating response: invalid JSON"]
    ELSE [raised |-> FALSE, value |-> DictGet(response.data, "text", "")]

\* ---------------------------------------------------------------- initial state
Init ==
    /\ conversations = <<>>
    /\ heap = <<>>
    /\ chats = <<>>
    /\ uploads = <<>>
    /\ files = <<>>
    /\ nreq = 0
    /\ nposts = 0
    /\ resp = NoResp
    /\ log = [u \in Users |-> <<>>]
    /\ failed = [u \in Users |-> FALSE]
    /\ ulog = [f \in Filenames |-> <<>>]

\* ---------------------------------------------------------------- POST /chat/
\* chat_endpoint up to its only await: append the user message to the list
\* object, build the prompt, look the model up; an unregistered model fails
\* the request at once, a registered one sends the POST and suspends.
ChatRequest(user_id, message, choice) ==
    /\ nreq < MaxReq
    /\ LET id == nreq + 1
           model_name == ModelChoice(choice)
           ref == GetHistory(user_id, id)
           old == IF ref \in DOMAIN heap THEN heap[ref] ELSE <<>>
           history == Append(old, Entry("user", message))
           prompt == Join(Contents_of(history))
           endpoint == Lookup(model_name)
       IN  /\ nreq' = id
           /\ IF endpoint = None
              THEN /\ heap' = Collect(Put(heap, ref, history), conversations, chats)
                   /\ resp' = [NoResp EXCEPT !.kind = "chat", !.status = 500,
                                  !.body = "Error generating response: Model '" \o model_name
                                           \o "' not supported.",
                                  !.user_id = user_id, !.message = message]
                   /\ failed' = [failed EXCEPT ![user_id] = TRUE]
                   /\ UNCHANGED <<chats, nposts, log>>
              ELSE /\ heap' = Put(heap, ref, history)
                   /\ chats' = Put(chats, id,
                                   [user_id |-> user_id, message |-> message,
                                    choice |-> choice, history |-> ref,
                                    endpoint |-> endpoint, payload |-> prompt])
                   /\ nposts' = nposts + 1
                   /\ UNCHANGED <<resp, log, failed>>
    /\ UNCHANGED <<conversations, uploads, files, ulog>>

\* A reply placed right after the turn's own user entry instead of at the end
\* of the list.
ChatReplyInRequestOrder(id, response) ==
    /\ id \in DOMAIN chats
    /\ ~GenerateResult(response).raised
    /\ LET t == chats[id]
           response_text == GenerateResult(response).value
           old == heap[t.history]
           at == CHOOSE i \in 1..Len(old) : old[i] = Entry("user", t.message)
           history == SubSeq(old, 1, at) \o <<Entry("assistant", response_text)>>
                          \o SubSeq(old, at + 1, Len(old))
           conv == Put(conversations, t.user_id, t.history)
           rest == Remove(chats, id)
       IN  /\ conversations' = conv
           /\ chats' = rest
           /\ heap' = Collect(Put(heap, t.history, history), conv, rest)
           /\ resp' = [NoResp EXCEPT !.kind = "chat", !.status = 200,
                          !.body = response_text, !.user_id = t.user_id,
                          !.message = t.message, !.backend = response]
           /\ log' = [log EXCEPT ![t.user_id] = Append(@, <<t.message, response_text>>)]
    /\ UNCHANGED <<uploads, files, nreq, nposts, failed, ulog>>

\* The POST returned a usable response: append the assistant entry, store the
\* list under the user and answer 200.
ChatReply(id, response) ==
    /\ id \in DOMAIN chats
    /\ ~GenerateResult(response).raised
    /\ LET t == chats[id]
           response_text == GenerateResult(response).value
           history == Append(heap[t.history], Entry("assistant", response_text))
           conv == Put(conversations, t.user_id, t.history)
           rest == Remove(chats, id)
       IN  /\ conversations' = conv
           /\ chats' = rest
           /\ heap' = Collect(Put(heap, t.history, history), conv, rest)
           /\ resp' = [NoResp EXCEPT !.kind = "chat", !.status = 200,
                          !.body = response_text, !.user_id = t.user_id,
                          !.message = t.message, !.backend = response]
           /\ log' = [log EXCEPT ![t.user_id] = Append(@, <<t.message, response_text>>)]
    /\ UNCHANGED <<uploads, files, nreq, nposts, failed, ulog>>

\* The POST failed (non-success status, unparsable body): generate_response
\* raises RuntimeError and chat_endpoint answers 500 with its text.
ChatError(id, response) ==
    /\ id \in DOMAIN chats
    /\ GenerateResult(response).raised
    /\ LET t == chats[id]
           rest == Remove(chats, id)
       IN  /\ chats' = rest
           /\ heap' = Collect(heap, conversations, rest)
           /\ resp' = [NoResp EXCEPT !.kind = "chat", !.status = 500,
                          !.body = GenerateResult(response).value, !.user_id = t.user_id,
                          !.message = t.message, !.backend = response]
           /\ failed' = [failed EXCEPT ![t.user_id] = TRUE]
    /\ UNCHANGED <<conversations, uploads, files, nreq, nposts, log, ulog>>

\* ---------------------------------------------------------------- POST /uploadfile/
\* open for update without truncation: an existing file keeps its bytes.
OpenNoTruncate(fs, filename) ==
    IF filename \in DOMAIN fs THEN fs ELSE Put(fs, filename, <<>>)

\* open(save_path, "wb"): the file exists afterwards and is empty
OpenTruncate(fs, filename) == Put(fs, filename, <<>>)

\* buffer.write(content) on a descriptor positioned at offset 0 of a file
\* that currently holds `old`
WriteAt(old, content) == content \o SubSeq(old, Len(content) + 1, Len(old))

UploadFailed(filename, cause) ==
    [NoResp EXCEPT !.kind = "upload", !.status = 500,
        !.body = "File upload failed: " \o cause, !.filename = filename]

\* upload_file up to its await: makedirs (the directory is there afterwards,
\* exist_ok), open for writing (truncates), then suspend in file.read().
UploadRequest(filename, content) ==
    /\ nreq < MaxReq
    /\ nreq' = nreq + 1
    /\ files' = OpenTruncate(files, filename)
    /\ uploads' = Put(uploads, nreq + 1, [filename |-> filename, content |-> content])
    /\ UNCHANGED <<conversations, heap, chats, nposts, resp, log, failed, ulog>>

\* makedirs or open raises: 500, no file touched.
UploadOpenError(filename, content, fault) ==
    /\ nreq < MaxReq
    /\ nreq' = nreq + 1
    /\ resp' = UploadFailed(filename, fault)
    /\ UNCHANGED <<conversations, heap, chats, uploads, files, nposts, log, failed, ulog>>

\* An upload that also resets the conversation store.
UploadWriteResetsStore(id) ==
    /\ id \in DOMAIN uploads
    /\ LET t == uploads[id]
       IN  /\ files' = [files EXCEPT ![t.filename] = WriteAt(@, t.content)]
           /\ resp' = [NoResp EXCEPT !.kind = "upload", !.status = 200,
                          !.body = UPLOADED, !.filename = t.filename, !.content = t.content]
           /\ ulog' = [ulog EXCEPT ![t.filename] = Append(@, t.content)]
    /\ uploads' = Remove(uploads, id)
    /\ conversations' = <<>>
    /\ UNCHANGED <<heap, chats, nreq, nposts, log, failed>>

\* file.read() returned: write the bytes, close, answer 200.
UploadWrite(id) ==
    /\ id \in DOMAIN uploads
    /\ LET t == uploads[id]
       IN  /\ files' = [files EXCEPT ![t.filename] = WriteAt(@, t.content)]
           /\ resp' = [NoResp EXCEPT !.kind = "upload", !.status = 200,
                          !.body = UPLOADED, !.filename = t.filename, !.content = t.content]
           /\ ulog' = [ulog EXCEPT ![t.filename] = Append(@, t.content)]
    /\ uploads' = Remove(uploads, id)
    /\ UNCHANGED <<conversations, heap, chats, nreq, nposts, log, failed>>

\* file.read() raises, or the write fails after `written` bytes: 500.
UploadIOError(id, fault, written) ==
    /\ id \in DOMAIN uploads
    /\ LET t == uploads[id]
       IN  /\ written < Len(t.content)
           /\ fault = "read" => written = 0
           /\ files' = [files EXCEPT ![t.filename] = WriteAt(@, SubSeq(t.content, 1, written))]
           /\ resp' = UploadFailed(t.filename, fault)
    /\ uploads' = Remove(uploads, id)
    /\ UNCHANGED <<conversations, heap, chats, nreq, nposts, log, failed, ulog>>

\* ---------------------------------------------------------------- GET /
\* A welcome payload that depends on the conversation store.
RootGreetsKnownUsers ==
    /\ nreq < MaxReq
    /\ nreq' = nreq + 1
    /\ resp' = [NoResp EXCEPT !.kind = "root", !.status = 200,
                   !.body = IF conversations = <<>> THEN WELCOME ELSE "Welcome back"]
    /\ UNCHANGED <<conversations, heap, chats, uploads, files, nposts, log, failed, ulog>>

Root ==
    /\ nreq < MaxReq
    /\ nreq' = nreq + 1
    /\ resp' = [NoResp EXCEPT !.kind = "root", !.status = 200, !.body = WELCOME]
    /\ UNCHANGED <<conversations, heap, chats, uploads, files, nposts, log, failed, ulog>>

\* ---------------------------------------------------------------- specifications
\* Requests are handled concurrently: a new request may arrive while others
\* are suspended at their await.
Next ==
    \/ \E u \in Users, m \in Messages, c \in ModelChoices :
          FreeConnection /\ ChatRequest(u, m, c)
    \/ \E id \in DOMAIN chats, r \in BackendResponses : ChatReply(id, r)
    \/ \E id \in DOMAIN chats, r \in BackendResponses : ChatError(id, r)
    \/ \E f \in Filenames, c \in Contents : FreeConnection /\ UploadRequest(f, c)
    \/ \E f \in Filenames, c \in Contents, x \in OpenFaults :
          FreeConnection /\ UploadOpenError(f, c, x)
    \/ \E id \in DOMAIN uploads : UploadWrite(id)
    \/ \E id \in DOMAIN uploads, x \in WriteFaults :
          \E k \in 0..Len(uploads[id].content) : UploadIOError(id, x, k)
    \/ FreeConnection /\ Root

Spec == Init /\ [][Next]_vars

\* Requests are handled one after the other: a request arrives only when no
\* other request is in flight.
SeqNext ==
    \/ \E u \in Users, m \in Messages, c \in ModelChoices : Idle /\ ChatRequest(u, m, c)
    \/ \E id \in DOMAIN chats, r \in BackendResponses : ChatReply(id, r)
    \/ \E id \in DOMAIN chats, r \in BackendResponses : ChatError(id, r)
    \/ \E f \in Filenames, c \in Contents : Idle /\ UploadRequest(f, c)
    \/ \E f \in Filenames, c \in Contents, x \in OpenFaults : Idle /\ UploadOpenError(f, c, x)
    \/ \E id \in DOMAIN uploads : UploadWrite(id)
    \/ \E id \in DOMAIN uploads, x \in WriteFaults :
          \E k \in 0..Len(uploads[id].content) : UploadIOError(id, x, k)
    \/ Idle /\ Root

SeqSpec == Init /\ [][SeqNext]_vars

\* ---------------------------------------------------------------- a backend that hangs
\* The model_b backend accepts the POST and never answers: the await of a turn
\* sent there never resumes.
Hung(id) == id \in DOMAIN chats /\ chats[id].endpoint = MODEL_ENDPOINTS.model_b

\* An event loop that resumes its tasks in arrival order only.
ReturnedInOrder(id) ==
    ~Hung(id) /\ \A j \in DOMAIN chats \cup DOMAIN uploads : j >= id

\* The call task `id` awaits has returned (or raised): the event loop may
\* resume the task, whatever the other tasks are doing.
Returned(id) == ~Hung(id)

\* chat turn `id` resumes after its backend call and runs to its response
ChatDone(id) ==
    Returned(id) /\ \E r \in BackendResponses : ChatReply(id, r) \/ ChatError(id, r)

\* upload `id` resumes after file.read() and runs to its response
UploadDone(id) ==
    /\ id \in DOMAIN uploads
    /\ Returned(id)
    /\ \/ UploadWrite(id)
       \/ \E x \in WriteFaults : \E k \in 0..Len(uploads[id].content) : UploadIOError(id, x, k)

\* Which task the event loop resumes does not depend on message texts or file
\* bodies: one of each is sent here.
HangMessages == {"hi"}
HangContents == {<<3>>}

HangNext ==
    \/ \E u \in Users, m \in HangMessages, c \in ModelChoices :
          FreeConnection /\ ChatRequest(u, m, c)
    \/ \E f \in Filenames, c \in HangContents : FreeConnection /\ UploadRequest(f, c)
    \/ \E f \in Filenames, c \in HangContents, x \in OpenFaults :
          FreeConnection /\ UploadOpenError(f, c, x)
    \/ FreeConnection /\ Root
    \/ \E id \in DOMAIN chats : ChatDone(id)
    \/ \E id \in DOMAIN uploads : UploadDone(id)

\* Every other backend call and every file read returns in the end, and the
\* event loop then resumes the task that awaits it.
HangSpec ==
    /\ Init
    /\ [][HangNext]_vars
    /\ \A id \in 1..MaxReq : WF_vars(ChatDone(id)) /\ WF_vars(UploadDone(id))

\* ---------------------------------------------------------------- properties
\* A step that sends a response: the number of answered requests grows.
Responded == nreq' - InFlight' = nreq - InFlight + 1

\* The chat turns that end in this step after their backend call.
Finishing == DOMAIN chats \ DOMAIN chats'

\* The chat turns that send their POST in this step.
Starting == DOMAIN chats' \ DOMAIN chats

\* A chat request that arrives and is answered in one step, without a POST.
AnsweredAtOnce == nreq' = nreq + 1 /\ InFlight' = InFlight /\ resp'.kind = "chat"

\* The step is the arrival of the answered-at-once chat request with this choice.
ArrivedWith(choice) ==
    \E u \in Users, m \in Messages :
        u = resp'.user_id /\ m = resp'.message /\ ChatRequest(u, m, choice)

UserEntry(message) == [role |-> "user", content |-> message]
AssistantEntry(reply) == [role |-> "assistant", content |-> reply]

NoTurnInFlight(u) == \A id \in DOMAIN chats : chats[id].user_id # u

AssistantCount(u) ==
    Cardinality({i \in 1..Len(Stored(u)) : Stored(u)[i].role = "assistant"})

Registered(choice) == choice \in {Unspecified, "model_a", "model_b"}

BackendOk(b) == b.status \in 200..299 /\ b.json

\* The transcript of a history, built from its end: one content per line.
RECURSIVE Transcript(_)
Transcript(h) ==
    IF h = <<>> THEN ""
    ELSE IF Len(h) = 1 THEN h[1].content
    ELSE Transcript(SubSeq(h, 1, Len(h) - 1)) \o "\n" \o h[Len(h)].content

\* C1: when requests are handled one after the other, a user all of whose N
\* chat turns so far succeeded has a stored history of exactly 2N entries:
\* turn k's user entry at position 2k-1 and its assistant entry at position 2k.
C1_HistoryHasTwoEntriesPerTurn ==
    \A u \in Users :
        (~failed[u] /\ NoTurnInFlight(u)) =>
            /\ Len(Stored(u)) = 2 * Len(log[u])
            /\ \A k \in 1..Len(log[u]) :
                  /\ Stored(u)[2 * k - 1] = UserEntry(log[u][k][1])
                  /\ Stored(u)[2 * k] = AssistantEntry(log[u][k][2])

C1_Witness ==
    \E u \in Users :
        /\ ~failed[u] /\ NoTurnInFlight(u)
        /\ Len(log[u]) = 2 /\ log[u][1][1] # log[u][2][1]
        /\ Len(Stored(u)) = 4

\* C2: right after a failed chat turn (requests handled one after the other)
\* the user's stored history ends with a user entry carrying the turn's
\* message, also when the failed turn is the user's first one.
C2_FailedTurnKeepsUserMessage ==
    (Idle /\ resp.kind = "chat" /\ resp.status = 500) =>
        /\ Stored(resp.user_id) # <<>>
        /\ Stored(resp.user_id)[Len(Stored(resp.user_id))] = UserEntry(resp.message)

\* C3: the prompt of every POST is the newline-joined content of the user's
\* stored history followed by the message just appended, and that is the list
\* the turn holds.
C3_PromptIsWholeTranscript ==
    [][\A id \in Starting :
          LET t == chats'[id]
              history == Append(Stored(t.user_id), UserEntry(t.message))
          IN  /\ heap'[t.history] = history
              /\ t.payload = Transcript(history)]_vars

C3_Witness ==
    \E id \in DOMAIN chats :
        /\ failed[chats[id].user_id]
        /\ chats[id].payload = "hi\nok\nthere\nhi"

\* C4: a chat turn that fails (unregistered model, non-success status, any
\* other fault of the backend call) is answered with a 500-class response
\* carrying a detail string, and neither its first step nor its failing step
\* changes the number of assistant entries of any stored history; only a turn
\* with a registered model reaches the backend.
C4_FailedTurnAddsNoAssistantEntry ==
    [][/\ \A id \in Starting :
             /\ Registered(chats'[id].choice)
             /\ \A v \in Users : AssistantCount(v)' = AssistantCount(v)
       /\ AnsweredAtOnce =>
             /\ \E c \in ModelChoices : ~Registered(c) /\ ArrivedWith(c)
             /\ resp'.status \in 500..599 /\ resp'.body # ""
             /\ \A v \in Users : AssistantCount(v)' = AssistantCount(v)
       /\ \A id \in Finishing :
             ~BackendOk(resp'.backend) =>
                 /\ resp'.kind = "chat" /\ resp'.user_id = chats[id].user_id
                 /\ resp'.status \in 500..599 /\ resp'.body # ""
                 /\ \A v \in Users : AssistantCount(v)' = AssistantCount(v)]_vars

C4_Witness ==
    /\ resp.kind = "chat" /\ resp.status = 500 /\ resp.backend.status = 503
    /\ AssistantCount(resp.user_id) = 1
    /\ Stored(resp.user_id)[Len(Stored(resp.user_id))] = UserEntry(resp.message)

\* C5: when the backend answers with a success status and a JSON object, the
\* turn is answered 200 with the object's `text` field as the reply ("" when
\* the field is missing), and the assistant entry appended to the user's stored
\* history carries that same reply.
C5_ReplyIsTextField ==
    [][\A id \in Finishing, u \in Users :
          (chats[id].user_id = u /\ BackendOk(resp'.backend)) =>
              /\ resp'.kind = "chat" /\ resp'.user_id = u /\ resp'.status = 200
              /\ \A p \in resp'.backend.data : p[1] = "text" => resp'.body = p[2]
              /\ (~\E p \in resp'.backend.data : p[1] = "text") => resp'.body = ""
              /\ Stored(u)' # <<>>
              /\ Stored(u)'[Len(Stored(u)')] = AssistantEntry(resp'.body)]_vars

C5_Witness ==
    /\ resp.kind = "chat" /\ resp.status = 200
    /\ resp.backend.data = {} /\ resp.body = ""
    /\ Stored(resp.user_id)[Len(Stored(resp.user_id))] = AssistantEntry("")

\* C6: a chat request that reaches the backend has a registered model
\* identifier ("model_a" when none is given) and issues exactly one POST, to
\* the endpoint registered for that identifier; a request answered at once has
\* an unregistered identifier and issues none; no other step issues a POST
\* (no retry).
C6_AtMostOnePostPerTurn ==
    [][/\ \A id \in Starting :
             /\ id = nreq' /\ nreq' = nreq + 1
             /\ Registered(chats'[id].choice)
             /\ nposts' = nposts + 1
             /\ chats'[id].endpoint =
                    IF chats'[id].choice = "model_b" THEN "https://api.modelb.com/v1/generate"
                    ELSE "https://api.modela.com/v1/generate"
       /\ AnsweredAtOnce => \A c \in ModelChoices : ArrivedWith(c) => ~Registered(c)
       /\ Starting = {} => nposts' = nposts]_vars

C6_Witness ==
    /\ nreq = 2 /\ nposts = 1
    /\ resp.kind = "chat" /\ resp.status = 500 /\ resp.backend = NoBackend
    /\ \E id \in DOMAIN chats :
          /\ chats[id].choice = Unspecified
          /\ chats[id].endpoint = "https://api.modela.com/v1/generate"

\* C7: whatever failed before, a chat request with a registered model is never
\* rejected at arrival, and when the backend answers with a success status and a
\* JSON object the turn is answered 200 and the user's stored history ends
\* with the turn's user entry followed by its assistant entry (requests
\* handled one after the other).
C7_FailuresAreNotFatal ==
    [][/\ AnsweredAtOnce => \A c \in ModelChoices : Registered(c) => ~ArrivedWith(c)
       /\ \A id \in Finishing, u \in Users, m \in Messages :
             (chats[id].user_id = u /\ chats[id].message = m /\ BackendOk(resp'.backend)) =>
                 /\ resp'.kind = "chat" /\ resp'.status = 200
                 /\ Len(Stored(u)') >= 2
                 /\ Stored(u)'[Len(Stored(u)') - 1] = UserEntry(m)
                 /\ Stored(u)'[Len(Stored(u)')] = AssistantEntry(resp'.body)]_vars

C7_Witness ==
    /\ resp.kind = "chat" /\ resp.status = 200
    /\ failed[resp.user_id]
    /\ Len(Stored(resp.user_id)) = 5
    /\ Stored(resp.user_id)[4] = UserEntry(resp.message)
    /\ Stored(resp.user_id)[5] = AssistantEntry(resp.body)

\* C8: right after a successful upload (requests handled one after the other)
\* the stored file holds exactly the bytes of that upload, whatever an earlier
\* upload with the same filename had stored.
C8_SecondUploadOverwrites ==
    (Idle /\ resp.kind = "upload" /\ resp.status = 200) =>
        /\ resp.filename \in DOMAIN files
        /\ files[resp.filename] = resp.content

C8_Witness ==
    /\ Idle /\ resp.kind = "upload" /\ resp.status = 200
    /\ ulog[resp.filename] = <<<<1, 2>>, <<3>>>>
    /\ files[resp.filename] = <<3>>

\* C9: a step of an upload (arrival, write, failure) changes neither the
\* conversation store nor the list objects nor the chat turns in flight and
\* issues no POST; a step of a chat turn changes neither the stored files nor
\* the uploads in flight.
C9_UploadAndChatAreIndependent ==
    [][/\ (DOMAIN uploads' # DOMAIN uploads \/ (Responded /\ resp'.kind = "upload")) =>
             UNCHANGED <<conversations, heap, chats, nposts>>
       /\ (DOMAIN chats' # DOMAIN chats \/ (Responded /\ resp'.kind = "chat")) =>
             UNCHANGED <<files, uploads>>]_vars

C9_Witness ==
    /\ resp.kind = "upload" /\ resp.status = 200
    /\ chats # <<>>
    /\ conversations # <<>>

\* C10: every answer to GET / is the fixed welcome payload with status 200,
\* and the step changes neither the conversation store nor the files nor the
\* requests in flight.
C10_RootIsFixed ==
    [][(Responded /\ resp'.kind = "root") =>
          /\ resp'.status = 200
          /\ resp'.body = "Welcome to the Web-based Chat Assistant API"
          /\ UNCHANGED <<conversations, heap, chats, uploads, files>>]_vars

C10_Witness ==
    /\ resp.kind = "root" /\ resp.body = "Welcome to the Web-based Chat Assistant API"
    /\ conversations # <<>>
    /\ files # <<>>

\* s is an initial part of t: same entries at the same positions
IsPrefix(s, t) == Len(s) <= Len(t) /\ \A i \in 1..Len(s) : t[i] = s[i]

\* C11: a stored history is append-only under every interleaving: in every
\* step, each user's stored history of before is an initial part of the
\* stored history of after (no entry removed, replaced or moved, no history
\* dropped), also when two turns of the same user are in flight at once.
C11_StoredHistoryIsAppendOnly ==
    [][\A u \in Users : IsPrefix(Stored(u), Stored(u)')]_vars

\* C12: concurrent chat turns of one user are not serialized.  A turn of a
\* user with a stored history works on the stored list itself: in its first
\* step it appends its user entry to the stored history and builds the prompt
\* from the result (one atomic step), then it is suspended in the backend call;
\* when the call returns with a reply, the assistant entry goes to the end of
\* the stored history as it is at that moment, after whatever other turns
\* appended meanwhile, so assistant entries land in completion order.
C12_TurnsOfOneUserInterleave ==
    [][/\ \A id \in Starting, u \in Users, m \in Messages :
             (/\ chats'[id].user_id = u /\ chats'[id].message = m
              /\ u \in DOMAIN conversations) =>
                 /\ chats'[id].history = conversations[u]
                 /\ Stored(u)' = Append(Stored(u), UserEntry(m))
                 /\ chats'[id].payload = Transcript(Stored(u)')
       /\ \A id \in Finishing, u \in Users :
             (/\ chats[id].user_id = u /\ u \in DOMAIN conversations
              /\ chats[id].history = conversations[u]
              /\ BackendOk(resp'.backend)) =>
                 Stored(u)' = Append(Stored(u), AssistantEntry(resp'.body))]_vars

\* Two turns in flight on an existing history: both user entries precede both
\* assistant entries, and the turn requested second was answered first.
C12_Witness ==
    \E u \in Users :
        /\ Len(Stored(u)) = 6 /\ Len(log[u]) = 3
        /\ [i \in 1..6 |-> Stored(u)[i].role] =
               <<"user", "assistant", "user", "user", "assistant", "assistant">>
        /\ Stored(u)[3].content # Stored(u)[4].content
        /\ log[u][2] = <<Stored(u)[4].content, Stored(u)[5].content>>
        /\ log[u][3] = <<Stored(u)[3].content, Stored(u)[6].content>>
        /\ Stored(u)[5].content # Stored(u)[6].content

\* C13: when an upload completes while the file holds the complete bytes of
\* another upload that ran concurrently (it was written after this upload
\* opened and truncated the file), the file afterwards holds exactly the bytes
\* of the completing upload: the last writer wins, no mixture of both bodies.
C13_ConcurrentUploadsLastWriteWins ==
    [][\A id \in DOMAIN uploads \ DOMAIN uploads', f \in Filenames :
          (/\ uploads[id].filename = f
           /\ resp'.kind = "upload" /\ resp'.status = 200
           /\ files[f] \in Contents) =>
              files'[f] = uploads[id].content]_vars

\* the assistant entries of a list
Assistants(h) == {i \in 1..Len(h) : h[i].role = "assistant"}

\* C14: a chat turn whose backend call never returns stays in flight for ever
\* and appends no assistant entry (an assistant entry that appears in its list
\* comes from another turn on the same list that completes in that step); it
\* blocks nothing else: every other chat turn in flight, of the same or of
\* another user, and every upload in flight eventually completes once its own
\* call returns.
C14_HungTurnBlocksOnlyItself ==
    /\ [][\A id \in DOMAIN chats :
             Hung(id) =>
                 /\ id \in DOMAIN chats' /\ chats'[id] = chats[id]
                 /\ Assistants(heap'[chats[id].history]) # Assistants(heap[chats[id].history]) =>
                        \E j \in Finishing : j # id /\ chats[j].history = chats[id].history]_vars
    /\ \A id \in 1..MaxReq : (id \in DOMAIN chats /\ ~Hung(id)) ~> (id \notin DOMAIN chats)
    /\ \A id \in 1..MaxReq : (id \in DOMAIN uploads) ~> (id \notin DOMAIN uploads)

\* A turn hangs on the stored list of a user while a later turn of the same
\* user, working on the same list, has been answered.
C14_Witness ==
    \E id \in DOMAIN chats, u \in Users :
        /\ Hung(id) /\ chats[id].user_id = u
        /\ u \in DOMAIN conversations /\ conversations[u] = chats[id].history
        /\ resp.kind = "chat" /\ resp.status = 200 /\ resp.user_id = u
        /\ Len(Stored(u)) = 5
        /\ Stored(u)[3] = UserEntry(chats[id].message)
        /\ Stored(u)[4] = UserEntry(resp.message)
        /\ Stored(u)[5] = AssistantEntry(resp.body)

\* the users that can reach list object o: through the store or through one
\* of their turns in flight
Owners(o) ==
    {u \in Users :
        \/ u \in DOMAIN conversations /\ conversations[u] = o
        \/ \E id \in DOMAIN chats : chats[id].user_id = u /\ chats[id].history = o}

\* the step belongs to a chat turn of user u
TurnStepOf(u) ==
    \/ \E id \in Starting : chats'[id].user_id = u
    \/ \E id \in Finishing : chats[id].user_id = u
    \/ AnsweredAtOnce /\ resp'.user_id = u

\* C15: histories of different users are isolated.  No list object is ever
\* reachable by two users; a user's stored history changes only in a step of
\* one of that user's own chat turns; a list object changes only by the append
\* of the user entry or of the assistant entry of a turn of its one owner; and
\* the prompt of a turn is the transcript of the turn's own list.  Hence a
\* prompt built for a user holds contents of that user's turns only.
C15_HistoriesAreIsolated ==
    /\ [](\A o \in DOMAIN heap : Cardinality(Owners(o)) <= 1)
    /\ [][/\ \A v \in Users : Stored(v)' # Stored(v) => TurnStepOf(v)
          /\ \A id \in Starting :
                chats'[id].payload = Transcript(heap'[chats'[id].history])
          /\ \A o \in DOMAIN heap' :
                (o \notin DOMAIN heap \/ heap'[o] # heap[o]) =>
                    \/ \E id \in Starting :
                          /\ chats'[id].history = o
                          /\ o \in DOMAIN heap => Owners(o) = {chats'[id].user_id}
                          /\ heap'[o] = Append(IF o \in DOMAIN heap THEN heap[o] ELSE <<>>,
                                               UserEntry(chats'[id].message))
                    \/ \E id \in Finishing :
                          /\ chats[id].history = o
                          /\ Owners(o) = {chats[id].user_id}
                          /\ heap'[o] = Append(heap[o], AssistantEntry(resp'.body))
                    \/ /\ AnsweredAtOnce
                       /\ o \in DOMAIN heap /\ Owners(o) = {resp'.user_id}
                       /\ heap'[o] = Append(heap[o], UserEntry(resp'.message))]_vars

\* A turn of one user is in flight on that user's stored history while another
\* user has a different stored history.
C15_Witness ==
    \E id \in DOMAIN chats, v \in Users :
        /\ v # chats[id].user_id
        /\ Len(Stored(v)) = 2
        /\ Len(Stored(chats[id].user_id)) = 3
        /\ Stored(v)[1] # Stored(chats[id].user_id)[1]
        /\ Stored(v)[2] # Stored(chats[id].user_id)[2]
        /\ chats[id].payload = Transcript(Stored(chats[id].user_id))

\* the number of entries with this role among the first k entries of h
CountRole(h, role, k) == Cardinality({i \in 1..k : h[i].role = role})

\* C16: in every reachable state, every initial part of a stored history holds
\* at least as many user entries as assistant entries (so it never starts with
\* an assistant entry); and the step that appends a turn's assistant entry
\* leaves a stored history in which that entry is the last one and the turn's
\* own user entry stands before it.
C16_UserEntryPrecedesAssistantEntry ==
    /\ [](\A u \in Users : \A k \in 1..Len(Stored(u)) :
             CountRole(Stored(u), "user", k) >= CountRole(Stored(u), "assistant", k))
    /\ [][\A id \in Finishing, u \in Users, m \in Messages :
             (/\ chats[id].user_id = u /\ chats[id].message = m
              /\ resp'.status = 200) =>
                 /\ Stored(u)' # <<>>
                 /\ Stored(u)'[Len(Stored(u)')] = AssistantEntry(resp'.body)
                 /\ \E i \in 1..(Len(Stored(u)') - 1) : Stored(u)'[i] = UserEntry(m)]_vars

\* A stored history in which a failed turn left its user entry between two
\* answered turns.
C16_Witness ==
    \E u \in Users :
        /\ failed[u] /\ Len(log[u]) = 2
        /\ [i \in 1..Len(Stored(u)) |-> Stored(u)[i].role] =
               <<"user", "assistant", "user", "user", "assistant">>

====
